---- MODULE Spec2Model ----
(***************************************************************************)
(* Model of src/src/regressors.py: the polynomial model-matrix builder,    *)
(* the in-place scaler `center`, the relay `get_beta` and the dispatcher   *)
(* `regressor`.                                                            *)
(*                                                                         *)
(* Numbers are exact rationals <<n, d>> in lowest terms with d > 0; the    *)
(* IEEE non-finite values are <<0, 0>> (nan), <<1, 0>> (+inf) and          *)
(* <<-1, 0>> (-inf).  A numpy array carries its dtype, because assigning   *)
(* into an array casts to the dtype of the array that is assigned to.      *)
(***************************************************************************)
EXTENDS Integers, Sequences, FiniteSets, TLC

\* ------------------------------------------------------------- bounds
MaxFeatures == 3
MaxTrainFeatures == 2
MaxRows == 3
MaxPol == 2
MaxVal == 2

\* ------------------------------------------------- exact arithmetic
Abs(x) == IF x < 0 THEN -x ELSE x

Sgn(x) == IF x < 0 THEN -1 ELSE IF x > 0 THEN 1 ELSE 0

RECURSIVE GCD(_, _)
GCD(a, b) == IF b = 0 THEN a ELSE GCD(b, a % b)

SetMax(S) == CHOOSE x \in S : \A y \in S : y <= x

NaN == <<0, 0>>

Norm(n, d) ==
  IF d = 0 THEN <<Sgn(n), 0>>
  ELSE LET g == GCD(Abs(n), Abs(d))
       IN <<(Sgn(d) * n) \div g, Abs(d) \div g>>

Rat(x) == <<x, 1>>

IsFinite(a) == a[2] # 0

RNeg(a) == <<-a[1], a[2]>>

RAdd(a, b) ==
  IF IsFinite(a) /\ IsFinite(b)
  THEN LET g == GCD(a[2], b[2])
       IN Norm(a[1] * (b[2] \div g) + b[1] * (a[2] \div g), a[2] * (b[2] \div g))
  ELSE IF a = NaN \/ b = NaN THEN NaN
  ELSE IF ~IsFinite(a) /\ ~IsFinite(b) THEN (IF a = b THEN a ELSE NaN)
  ELSE IF IsFinite(a) THEN b ELSE a

RSub(a, b) == RAdd(a, RNeg(b))

RMul(a, b) ==
  IF IsFinite(a) /\ IsFinite(b) THEN Norm(a[1] * b[1], a[2] * b[2])
  ELSE IF a = NaN \/ b = NaN THEN NaN
  ELSE <<Sgn(a[1]) * Sgn(b[1]), 0>>

\* IEEE division: x/0 is nan for x = 0 and a signed infinity otherwise.
RDiv(a, b) ==
  IF a = NaN \/ b = NaN THEN NaN
  ELSE IF IsFinite(a) /\ IsFinite(b)
       THEN (IF b[1] = 0 THEN <<Sgn(a[1]), 0>> ELSE Norm(a[1] * b[2], a[2] * b[1]))
  ELSE IF IsFinite(a) THEN Rat(0)
  ELSE IF IsFinite(b) THEN <<Sgn(a[1]) * (IF b[1] < 0 THEN -1 ELSE 1), 0>>
  ELSE NaN

RLess(a, b) == a[1] * b[2] < b[1] * a[2]

\* ------------------------------------------------------ numpy arrays
\* A 1-D array is [dtype, v]; a 2-D array is [dtype, rows].  The empty 1-D
\* array that np.array([]).T yields is a matrix with rows = <<>>.
Arr(dtype, v) == [dtype |-> dtype, v |-> v]

Mat(dtype, rows) == [dtype |-> dtype, rows |-> rows]

NoValue == Mat("none", <<>>)

JoinDtype(d1, d2) == IF d1 = "float" \/ d2 = "float" THEN "float" ELSE "int"

\* ------------------------------------------------ get_model_matrix
\* line 74: product * data_points[...], numpy's elementwise product; an
\* array of length 1 is broadcast against the other operand.
Broadcastable(a, b) == Len(a.v) = Len(b.v) \/ Len(a.v) = 1 \/ Len(b.v) = 1

ElementwiseProduct(a, b) ==
  LET la == Len(a.v)
      lb == Len(b.v)
      n == IF la = 1 THEN lb ELSE la
  IN Arr(JoinDtype(a.dtype, b.dtype),
         [e \in 1..n |-> RMul(a.v[IF la = 1 THEN 1 ELSE e], b.v[IF lb = 1 THEN 1 ELSE e])])

\* lines 43-45: the loop runs len(data_points) times and compares
\* data_points[0] with data_points[1] every time.
FeatureDimensionsError(dp) ==
  IF Len(dp) = 0 THEN "none"
  ELSE IF Len(dp) = 1 THEN "IndexError"
  ELSE IF Len(dp[1].v) # Len(dp[2].v) THEN "AssertionError"
  ELSE "none"

\* Variant: isinstance(n_pol, int), which a bool passes.
PolTypeErrorIsInstance(p) == IF p.ty \in {"int", "bool"} THEN "none" ELSE "AssertionError"

\* line 48: assert type(n_pol) == int
PolTypeError(p) == IF p.ty = "int" THEN "none" ELSE "AssertionError"

\* line 60: itertools.combinations_with_replacement(indices, r), as the
\* library generates it: start from r zeros, then repeatedly find the
\* rightmost position that is not n - 1 and set it and everything to its
\* right to its value plus one.
RECURSIVE CWRFrom(_, _)
CWRFrom(indices, n) ==
  LET r == Len(indices)
      movable == {q \in 1..r : indices[q] # n - 1}
  IN IF movable = {} THEN <<indices>>
     ELSE LET q0 == SetMax(movable)
              nxt == [q \in 1..r |-> IF q < q0 THEN indices[q] ELSE indices[q0] + 1]
          IN <<indices>> \o CWRFrom(nxt, n)

\* Variant: itertools.combinations, which never repeats an index.
CombinationsWithoutReplacement(n, r) ==
  IF n = 0 /\ r > 0 THEN <<>>
  ELSE SelectSeq(CWRFrom([q \in 1..r |-> 0], n),
                 LAMBDA t : \A q \in 1..(Len(t) - 1) : t[q] < t[q + 1])

CombinationsWithReplacement(n, r) ==
  IF n = 0 /\ r > 0 THEN <<>> ELSE CWRFrom([q \in 1..r |-> 0], n)

\* lines 58-60: range(1, n_pol + 1) is empty for n_pol <= 0.
RECURSIVE IndexCombinationsFrom(_, _, _)
IndexCombinationsFrom(k, d, npol) ==
  IF d > npol THEN <<>>
  ELSE CombinationsWithReplacement(k, d) \o IndexCombinationsFrom(k, d + 1, npol)

IndexCombinations(k, npol) == IndexCombinationsFrom(k, 1, npol)

\* lines 66-74: the product of the features a combination names.
RECURSIVE ProductLoop(_, _, _, _)
ProductLoop(dp, combo, j, product) ==
  IF j > Len(combo) \/ product.raised # "none" THEN product
  ELSE LET f == dp[combo[j] + 1]
       IN ProductLoop(dp, combo, j + 1,
            IF j = 1 THEN [raised |-> "none", arr |-> f]
            ELSE IF Broadcastable(product.arr, f)
                 THEN [raised |-> "none", arr |-> ElementwiseProduct(product.arr, f)]
                 ELSE [raised |-> "ValueError", arr |-> product.arr])

ColumnProduct(dp, combo) ==
  ProductLoop(dp, combo, 1, [raised |-> "none", arr |-> Arr("none", <<>>)])

\* line 52: np.ones(len(data_points[0]))
NpOnes(n) == Arr("float", [e \in 1..n |-> Rat(1)])

\* line 79: np.array(model_matrix_columns).T.  Columns of unequal length
\* make an object array of arrays in one numpy and a ValueError in another
\* (numpy_ragged names which); no column at all makes the empty 1-D array.
NumpyRagged == {"object", "ValueError"}

NpArrayT(columns, numpy_ragged) ==
  LET nc == Len(columns)
      dt == IF \E c \in 1..nc : columns[c].dtype = "float" THEN "float" ELSE "int"
  IN IF nc = 0 THEN [raised |-> "none", value |-> Mat("float", <<>>)]
     ELSE IF \A c \in 1..nc : Len(columns[c].v) = Len(columns[1].v)
     THEN [raised |-> "none",
           value |-> Mat(dt, [r \in 1..Len(columns[1].v) |-> [c \in 1..nc |-> columns[c].v[r]]])]
     ELSE IF numpy_ragged = "object"
     THEN [raised |-> "none", value |-> Mat("object", [c \in 1..nc |-> columns[c].v])]
     ELSE [raised |-> "ValueError", value |-> NoValue]

\* lines 35-80
get_model_matrix(dp, p, inc, numpy_ragged) ==
  LET k == Len(dp)
      combos == IndexCombinations(k, p.val)
      products == [c \in 1..Len(combos) |-> ColumnProduct(dp, combos[c])]
      columns == (IF inc THEN <<NpOnes(Len(dp[1].v))>> ELSE <<>>)
                 \o [c \in 1..Len(combos) |-> products[c].arr]
  IN IF FeatureDimensionsError(dp) # "none"
     THEN [raised |-> FeatureDimensionsError(dp), value |-> NoValue]
     ELSE IF PolTypeError(p) # "none"
     THEN [raised |-> PolTypeError(p), value |-> NoValue]
     ELSE IF inc /\ k = 0
     THEN [raised |-> "IndexError", value |-> NoValue]
     ELSE IF \E c \in 1..Len(combos) : products[c].raised # "none"
     THEN [raised |-> "ValueError", value |-> NoValue]
     ELSE NpArrayT(columns, numpy_ragged)

\* -------------------------------------------------------------- center
NumRows(m) == Len(m.rows)

NumCols(m) == IF m.rows = <<>> THEN 0 ELSE Len(m.rows[1])

RECURSIVE ColSum(_, _, _)
ColSum(m, c, r) == IF r = 0 THEN Rat(0) ELSE RAdd(ColSum(m, c, r - 1), m.rows[r][c])

ColMax(m, c) ==
  CHOOSE x \in {m.rows[r][c] : r \in 1..NumRows(m)} :
    \A y \in {m.rows[r][c] : r \in 1..NumRows(m)} : ~RLess(x, y)

ColMin(m, c) ==
  CHOOSE x \in {m.rows[r][c] : r \in 1..NumRows(m)} :
    \A y \in {m.rows[r][c] : r \in 1..NumRows(m)} : ~RLess(y, x)

\* line 27: np.mean(matrix, axis=0)
ColMean(m) == [c \in 1..NumCols(m) |-> RDiv(ColSum(m, c, NumRows(m)), Rat(NumRows(m)))]

\* line 28: np.max(matrix, axis=0) - np.min(matrix, axis=0)
ColRange(m) == [c \in 1..NumCols(m) |-> RSub(ColMax(m, c), ColMin(m, c))]

\* The cast of a double to int64 truncates toward zero.
Trunc(a) == Sgn(a[1]) * (Abs(a[1]) \div a[2])

\* Casting a non-finite double to int64 is undefined: the build decides
\* (INT64_MIN on x86-64, 0 elsewhere).  IntMinStandIn stands for INT64_MIN,
\* which TLC's integers cannot hold.
IntMinStandIn == -32768

CastOfNonFinite == {Rat(0), Rat(IntMinStandIn)}

\* Storing x into an array of the given dtype.
AssignCast(dtype, x, g) ==
  IF dtype = "int" THEN (IF IsFinite(x) THEN Rat(Trunc(x)) ELSE g) ELSE x

\* Variant: the mean and the range taken anew from the matrix as it is when
\* row r is transformed.
CenterRowValueRecomputed(m, r, mean, div) ==
  [c \in 1..NumCols(m) |-> RDiv(RSub(m.rows[r][c], ColMean(m)[c]), ColRange(m)[c])]

\* line 31, right-hand side: (matrix[i] - m_mean) / divisor
CenterRowValue(m, r, mean, div) ==
  [c \in 1..NumCols(m) |-> RDiv(RSub(m.rows[r][c], mean[c]), div[c])]

\* line 31, the assignment into row r of the array itself
CenterRowAssign(m, r, mean, div, g) ==
  [m EXCEPT !.rows[r] =
     [c \in 1..NumCols(m) |-> AssignCast(m.dtype, CenterRowValue(m, r, mean, div)[c], g)]]

\* Variant: the test matrix centred with its own mean and range.
TestCenteringOwnPair(m, mean, div) ==
  Mat("float", [r \in 1..NumRows(m) |->
                  [c \in 1..NumCols(m) |->
                     RDiv(RSub(m.rows[r][c], ColMean(m)[c]), ColRange(m)[c])]])

\* line 155: (test_model_matrix - train_mean) / divisor_scaler, a new array
TestCentering(m, mean, div) ==
  Mat("float", [r \in 1..NumRows(m) |->
                  [c \in 1..NumCols(m) |-> RDiv(RSub(m.rows[r][c], mean[c]), div[c])]])

\* ------------------------------------------------------------ get_beta
RegressorType == {"OLS", "OLS_SGD", "LASSO", "RIDGE", "RIDGE_SGD", "LOGISTIC"}

\* Variant: a kind that is none of the six falls back to OLS.
get_beta_default_ols(ty) ==
  IF ty \in {"OLS_SGD", "RIDGE_SGD", "LOGISTIC"}
  THEN [raised |-> "none", solver |-> "stochastic_batch_gradient_descent",
        derivative |-> IF ty = "RIDGE_SGD" THEN "calculate_cost_derivative_ridge"
                       ELSE "calculate_cost_derivative_mse"]
  ELSE IF ty = "LASSO"
  THEN [raised |-> "none", solver |-> "calculate_beta_lasso", derivative |-> "none"]
  ELSE IF ty = "RIDGE"
  THEN [raised |-> "none", solver |-> "calculate_beta_ridge", derivative |-> "none"]
  ELSE [raised |-> "none", solver |-> "calculate_beta", derivative |-> "none"]

\* lines 93-129: the callee each kind is relayed to, and the cost
\* derivative handed to stochastic_batch_gradient_descent.
get_beta(ty) ==
  IF ty = "OLS"
  THEN [raised |-> "none", solver |-> "calculate_beta", derivative |-> "none"]
  ELSE IF ty = "OLS_SGD"
  THEN [raised |-> "none", solver |-> "stochastic_batch_gradient_descent",
        derivative |-> "calculate_cost_derivative_mse"]
  ELSE IF ty = "LASSO"
  THEN [raised |-> "none", solver |-> "calculate_beta_lasso", derivative |-> "none"]
  ELSE IF ty = "RIDGE"
  THEN [raised |-> "none", solver |-> "calculate_beta_ridge", derivative |-> "none"]
  ELSE IF ty = "RIDGE_SGD"
  THEN [raised |-> "none", solver |-> "stochastic_batch_gradient_descent",
        derivative |-> "calculate_cost_derivative_ridge"]
  ELSE IF ty = "LOGISTIC"
  THEN [raised |-> "none", solver |-> "stochastic_batch_gradient_descent",
        derivative |-> "calculate_cost_derivative_mse"]
  ELSE [raised |-> "NotImplementedError", solver |-> "none", derivative |-> "none"]

\* The solvers are external numeric code (pinv, scipy's minimize, the SGD
\* engine started from a random beta): any vector with one entry per column.
BetaResults(nc) ==
  {[j \in 1..nc |-> IF j = 1 THEN Rat(1) ELSE IF j = nc THEN Rat(-1) ELSE Rat(0)],
   [j \in 1..nc |-> IF j = nc THEN Rat(2) ELSE Rat(0)]}

\* ------------------------------------------------------ get_prediction
RECURSIVE Dot(_, _, _)
Dot(row, b, j) == IF j = 0 THEN Rat(0) ELSE RAdd(Dot(row, b, j - 1), RMul(row[j], b[j]))

\* Variant: the intercept is dropped.
get_prediction_no_intercept(m, b, intercept) ==
  [r \in 1..NumRows(m) |-> Dot(m.rows[r], b, Len(b))]

\* lines 22-23: model_matrix @ beta + intercept
get_prediction(m, b, intercept) ==
  [r \in 1..NumRows(m) |-> RAdd(Dot(m.rows[r], b, Len(b)), intercept)]

\* np.mean(train_data['targets'])
RECURSIVE SeqSum(_, _)
SeqSum(v, r) == IF r = 0 THEN Rat(0) ELSE RAdd(SeqSum(v, r - 1), v[r])

NpMean(a) == RDiv(SeqSum(a.v, Len(a.v)), Rat(Len(a.v)))

\* ------------------------------------------------------------ inputs
Dtypes == {"int", "float"}

\* Each feature is a numpy array (line 74 multiplies features elementwise).
\* Feature j of a data set holds n distinct whole numbers, all >= 2.
Feature(dtype, s, j, n) == Arr(dtype, [e \in 1..n |-> Rat(s + (j - 1) * MaxRows + e)])

DataPoints(dtype, s, lens) == [j \in 1..Len(lens) |-> Feature(dtype, s, j, lens[j])]

LengthVectors == UNION {[1..k -> 1..MaxRows] : k \in 0..MaxFeatures}

DataPointInputs ==
  {DataPoints(d, s, lens) : d \in Dtypes, s \in 1..MaxVal, lens \in LengthVectors}

IntPol(v) == [ty |-> "int", val |-> v]

\* n_pol values whose type is not int: 2.0 and True.
NonIntPols == {[ty |-> "float", val |-> 2], [ty |-> "bool", val |-> 1]}

PolInputs == {IntPol(v) : v \in -1..MaxPol} \cup NonIntPols

NoPol == [ty |-> "none", val |-> 0]

\* regressor's data: k >= 1 features of one common length, targets 1..n.
DataSet(dtype, s, k, n) ==
  [inputs |-> DataPoints(dtype, s, [j \in 1..k |-> n]),
   targets |-> Arr("float", [e \in 1..n |-> Rat(e)])]

NoData == [inputs |-> <<>>, targets |-> Arr("none", <<>>)]

TrainSets ==
  {DataSet(d, s, k, n) :
     d \in Dtypes, s \in 1..MaxVal, k \in 1..MaxTrainFeatures, n \in 1..MaxRows}

\* Test sets have the dtype and the number of features of the train set; one
\* more test set has a single feature.
TestSets(train) ==
  {DataSet(train.inputs[1].dtype, s, Len(train.inputs), n) : s \in 1..MaxVal, n \in 1..MaxRows}
    \cup {DataSet(train.inputs[1].dtype, 1, 1, 1)}

RegressorPols == {IntPol(v) : v \in 0..MaxPol}

\* The six kinds and a tag that is none of them.
KindTags == RegressorType \cup {"ELASTIC_NET"}

NoVector == <<>>

NoRef == 0

\* ------------------------------------------------------------- state
VARIABLES
  pc,                 \* position in the running call
  call,               \* the function the caller invoked
  raised,             \* the exception that ended the call, or "none"
  data_points, n_pol, include_intercept,   \* get_model_matrix's arguments
  model_matrix,       \* what a direct call of get_model_matrix returned
  type, regressor_parameters, train_data, test_data,   \* regressor's arguments
  heap,               \* the 2-D arrays; a local holds a reference into it
  train_model_matrix, centered_train_model_matrix, train_mean, divisor_scaler,
  beta, train_prediction, test_model_matrix, centered_test_model_matrix,
  test_prediction,    \* regressor's locals
  matrix, m_mean, divisor, i,   \* center's argument and locals
  solver, cost_derivative       \* what get_beta called and injected

mmVars == <<data_points, include_intercept, model_matrix>>

argVars == <<type, regressor_parameters, train_data, test_data>>

centerVars == <<matrix, m_mean, divisor, i>>

trainVars == <<train_model_matrix, centered_train_model_matrix, train_mean, divisor_scaler>>

betaVars == <<beta, solver, cost_derivative>>

testVars == <<test_model_matrix, centered_test_model_matrix>>

predVars == <<train_prediction, test_prediction>>

vars == <<pc, call, raised, n_pol, heap, mmVars, argVars, centerVars, trainVars,
          betaVars, testVars, predVars>>

Init ==
  /\ pc = "idle"
  /\ call = "none"
  /\ raised = "none"
  /\ data_points = <<>>
  /\ n_pol = NoPol
  /\ include_intercept = FALSE
  /\ model_matrix = NoValue
  /\ type = "none"
  /\ regressor_parameters = [fit_intercept |-> FALSE]
  /\ train_data = NoData
  /\ test_data = NoData
  /\ heap = <<>>
  /\ train_model_matrix = NoRef
  /\ centered_train_model_matrix = NoRef
  /\ train_mean = NoVector
  /\ divisor_scaler = NoVector
  /\ beta = NoVector
  /\ train_prediction = NoVector
  /\ test_model_matrix = NoRef
  /\ centered_test_model_matrix = NoRef
  /\ test_prediction = NoVector
  /\ matrix = NoRef
  /\ m_mean = NoVector
  /\ divisor = NoVector
  /\ i = 0
  /\ solver = "none"
  /\ cost_derivative = "none"

\* A caller invokes get_model_matrix(data_points, n_pol, include_intercept).
CallGetModelMatrix ==
  /\ pc = "idle"
  /\ \E dp \in DataPointInputs, p \in PolInputs, inc \in BOOLEAN, nr \in NumpyRagged :
       LET r == get_model_matrix(dp, p, inc, nr)
       IN /\ call' = "get_model_matrix"
          /\ data_points' = dp
          /\ n_pol' = p
          /\ include_intercept' = inc
          /\ raised' = r.raised
          /\ model_matrix' = r.value
          /\ pc' = "done"
  /\ UNCHANGED <<heap, argVars, centerVars, trainVars, betaVars, testVars, predVars>>

\* line 131: a caller invokes regressor(type, regressor_parameters,
\* train_data, test_data, n_pol).  test_data is not read before line 153;
\* the caller's choice of it is made there.
CallRegressor ==
  /\ pc = "idle"
  /\ \E ty \in KindTags, fit \in BOOLEAN, train \in TrainSets, p \in RegressorPols :
       /\ call' = "regressor"
       /\ type' = ty
       /\ regressor_parameters' = [fit_intercept |-> fit]
       /\ train_data' = train
       /\ n_pol' = p
       /\ pc' = "train_matrix"
  /\ UNCHANGED <<raised, heap, test_data, mmVars, centerVars, trainVars, betaVars, testVars,
                 predVars>>

\* lines 143 and 161: the train design matrix, without the ones column iff
\* fit_intercept.
BuildTrainMatrix ==
  /\ pc = "train_matrix"
  /\ \E nr \in NumpyRagged :
       LET r == get_model_matrix(train_data.inputs, n_pol,
                               ~regressor_parameters.fit_intercept, nr)
       IN IF r.raised # "none"
          THEN /\ raised' = r.raised
               /\ pc' = "done"
               /\ UNCHANGED <<heap, train_model_matrix>>
          ELSE /\ heap' = Append(heap, r.value)
               /\ train_model_matrix' = Len(heap) + 1
               /\ pc' = IF regressor_parameters.fit_intercept THEN "center" ELSE "get_beta"
               /\ UNCHANGED raised
  /\ UNCHANGED <<call, n_pol, mmVars, argVars, centerVars, centered_train_model_matrix,
                 train_mean, divisor_scaler, betaVars, testVars, predVars>>

\* lines 145 and 27-28: center(train_model_matrix) takes the mean and the
\* range of its argument; np.max of the empty array raises.
CenterCall ==
  /\ pc = "center"
  /\ matrix' = train_model_matrix
  /\ IF heap[train_model_matrix].rows = <<>>
     THEN /\ raised' = "ValueError"
          /\ pc' = "done"
          /\ UNCHANGED <<m_mean, divisor, i>>
     ELSE /\ m_mean' = ColMean(heap[train_model_matrix])
          /\ divisor' = ColRange(heap[train_model_matrix])
          /\ i' = 0
          /\ pc' = "center_loop"
          /\ UNCHANGED raised
  /\ UNCHANGED <<call, n_pol, heap, mmVars, argVars, trainVars, betaVars, testVars, predVars>>

\* lines 30-31: one iteration, overwriting row i of the argument.
CenterRow ==
  /\ pc = "center_loop"
  /\ i < NumRows(heap[matrix])
  /\ \E g \in CastOfNonFinite :
       heap' = [heap EXCEPT ![matrix] = CenterRowAssign(heap[matrix], i + 1, m_mean, divisor, g)]
  /\ i' = i + 1
  /\ UNCHANGED <<pc, call, raised, n_pol, mmVars, argVars, matrix, m_mean, divisor,
                 trainVars, betaVars, testVars, predVars>>

\* lines 33 and 145: return matrix, m_mean, divisor
CenterReturn ==
  /\ pc = "center_loop"
  /\ i = NumRows(heap[matrix])
  /\ centered_train_model_matrix' = matrix
  /\ train_mean' = m_mean
  /\ divisor_scaler' = divisor
  /\ pc' = "get_beta"
  /\ UNCHANGED <<call, raised, n_pol, heap, mmVars, argVars, centerVars, train_model_matrix,
                 betaVars, testVars, predVars>>

\* The design matrix beta is fitted on and the train prediction is made from.
FitMatrix ==
  IF regressor_parameters.fit_intercept THEN centered_train_model_matrix
  ELSE train_model_matrix

\* lines 149/157 and 165/171: the intercept handed to get_prediction
Intercept ==
  IF regressor_parameters.fit_intercept THEN NpMean(train_data.targets) ELSE Rat(0)

\* lines 147 and 163: get_beta(type, ...)
CallGetBeta ==
  /\ pc = "get_beta"
  /\ LET r == get_beta(type)
     IN IF r.raised # "none"
        THEN /\ raised' = r.raised
             /\ pc' = "done"
             /\ UNCHANGED betaVars
        ELSE /\ solver' = r.solver
             /\ cost_derivative' = r.derivative
             /\ beta' \in BetaResults(NumCols(heap[FitMatrix]))
             /\ pc' = "predict_train"
             /\ UNCHANGED raised
  /\ UNCHANGED <<call, n_pol, heap, mmVars, argVars, centerVars, trainVars, testVars, predVars>>

\* lines 149 and 165
PredictTrain ==
  /\ pc = "predict_train"
  /\ train_prediction' = get_prediction(heap[FitMatrix], beta, Intercept)
  /\ pc' = "test_matrix"
  /\ UNCHANGED <<call, raised, n_pol, heap, mmVars, argVars, centerVars, trainVars, betaVars,
                 testVars, test_prediction>>

\* lines 153-155 and 169
BuildTestMatrix ==
  /\ pc = "test_matrix"
  /\ \E test \in TestSets(train_data), nr \in NumpyRagged :
       LET r == get_model_matrix(test.inputs, n_pol, ~regressor_parameters.fit_intercept, nr)
       IN /\ test_data' = test
          /\ IF r.raised # "none"
             THEN /\ raised' = r.raised
                  /\ pc' = "done"
                  /\ UNCHANGED <<heap, testVars>>
             ELSE /\ test_model_matrix' = Len(heap) + 1
                  /\ IF regressor_parameters.fit_intercept
                     THEN /\ heap' = heap \o <<r.value,
                                               TestCentering(r.value, train_mean, divisor_scaler)>>
                          /\ centered_test_model_matrix' = Len(heap) + 2
                     ELSE /\ heap' = Append(heap, r.value)
                          /\ UNCHANGED centered_test_model_matrix
                  /\ pc' = "predict_test"
                  /\ UNCHANGED raised
  /\ UNCHANGED <<call, n_pol, mmVars, type, regressor_parameters, train_data, centerVars,
                 trainVars, betaVars, predVars>>

\* lines 157, 171 and 173
PredictTest ==
  /\ pc = "predict_test"
  /\ test_prediction' =
       get_prediction(heap[IF regressor_parameters.fit_intercept
                          THEN centered_test_model_matrix ELSE test_model_matrix],
                     beta, Intercept)
  /\ pc' = "done"
  /\ UNCHANGED <<call, raised, n_pol, heap, mmVars, argVars, centerVars, trainVars, betaVars,
                 testVars, train_prediction>>

Next ==
  \/ CallGetModelMatrix
  \/ CallRegressor
  \/ BuildTrainMatrix
  \/ CenterCall
  \/ CenterRow
  \/ CenterReturn
  \/ CallGetBeta
  \/ PredictTrain
  \/ BuildTestMatrix
  \/ PredictTest

Spec == Init /\ [][Next]_vars

\* ------------------------------------------------ vocabulary of the claims
EqualLengths(dp) == \A a, b \in 1..Len(dp) : Len(dp[a].v) = Len(dp[b].v)

MatColumns(m) == [c \in 1..NumCols(m) |-> [r \in 1..NumRows(m) |-> m.rows[r][c]]]

DirectDone == call = "get_model_matrix" /\ pc = "done"

\* The index tuples of degree d, stated as a set: non-decreasing tuples.
NonDecreasingTuples(k, d) ==
  {t \in [1..d -> 0..(k - 1)] : \A q \in 1..(d - 1) : t[q] <= t[q + 1]}

LexLess(a, b) ==
  \E q \in 1..Len(a) : a[q] < b[q] /\ \A q2 \in 1..(q - 1) : a[q2] = b[q2]

RECURSIVE SortLex(_)
SortLex(S) ==
  IF S = {} THEN <<>>
  ELSE LET least == CHOOSE t \in S : \A u \in S \ {t} : LexLess(t, u)
       IN <<least>> \o SortLex(S \ {least})

RECURSIVE ExpectedTerms(_, _)
ExpectedTerms(k, d) ==
  IF d <= 0 THEN <<>> ELSE ExpectedTerms(k, d - 1) \o SortLex(NonDecreasingTuples(k, d))

RECURSIVE TermValue(_, _, _, _)
TermValue(dp, t, e, q) ==
  IF q = 0 THEN Rat(1) ELSE RMul(TermValue(dp, t, e, q - 1), dp[t[q] + 1].v[e])

ExpectedColumns(dp, npol, inc) ==
  LET terms == ExpectedTerms(Len(dp), npol)
      n == IF Len(dp) = 0 THEN 0 ELSE Len(dp[1].v)
  IN (IF inc THEN <<[e \in 1..n |-> Rat(1)]>> ELSE <<>>)
     \o [c \in 1..Len(terms) |-> [e \in 1..n |-> TermValue(dp, terms[c], e, Len(terms[c]))]]

\* C1: get_model_matrix on exactly one feature sequence [x], with n_pol = 1
\* and include_intercept = True, returns without raising the matrix whose
\* row r is [1, x_r].
C1_SingleFeatureWithIntercept ==
  (DirectDone /\ Len(data_points) = 1 /\ n_pol = IntPol(1) /\ include_intercept)
    => /\ raised = "none"
       /\ model_matrix.rows =
            [r \in 1..Len(data_points[1].v) |-> <<Rat(1), data_points[1].v[r]>>]

\* C2: get_model_matrix fails with an error and returns no matrix whenever
\* two of the feature sequences differ in length.
C2_UnequalLengthsFail ==
  (DirectDone /\ ~EqualLengths(data_points))
    => (raised # "none" /\ model_matrix = NoValue)

\* C3: for equal-length features and an int n_pol >= 0 the columns of the
\* result are the ones column first iff include_intercept, then per degree
\* 1..n_pol the products of the non-decreasing index tuples in lexicographic
\* order; two or more such features always yield a result.
C3_ColumnOrder ==
  (DirectDone /\ EqualLengths(data_points) /\ n_pol.ty = "int" /\ n_pol.val >= 0)
    => /\ raised = "none" =>
            MatColumns(model_matrix) = ExpectedColumns(data_points, n_pol.val, include_intercept)
       /\ Len(data_points) >= 2 => raised = "none"

\* C3 witness: features [x, y], n_pol = 2, no intercept: x, y, x*x, x*y, y*y.
C3_TwoFeaturesDegreeTwo ==
  /\ DirectDone
  /\ raised = "none"
  /\ Len(data_points) = 2
  /\ Len(data_points[1].v) = 2
  /\ n_pol = IntPol(2)
  /\ ~include_intercept
  /\ LET x == data_points[1].v
         y == data_points[2].v
         Times(a, b) == [e \in 1..2 |-> RMul(a[e], b[e])]
     IN MatColumns(model_matrix) = <<x, y, Times(x, x), Times(x, y), Times(y, y)>>

\* C4 as claimed: every n_pol that is negative or not an int makes the call
\* fail and build no matrix.
C4_NegativeOrNonIntFails ==
  (DirectDone /\ (n_pol.ty # "int" \/ n_pol.val < 0))
    => (raised # "none" /\ model_matrix = NoValue)

\* C4 as amended: n_pol is rejected by its type only.  Every n_pol whose type
\* is not int makes the call fail and build no matrix; a negative int is
\* accepted and gives the outcome of n_pol = 0.
C4_RejectedByTypeOnly ==
  DirectDone =>
    /\ n_pol.ty # "int" => (raised # "none" /\ model_matrix = NoValue)
    /\ (n_pol.ty = "int" /\ n_pol.val < 0) =>
         \A nr \in NumpyRagged :
           LET zero == get_model_matrix(data_points, IntPol(0), include_intercept, nr)
           IN raised = zero.raised /\ model_matrix = zero.value

\* C4 witness: two equal-length features and n_pol = 2.0: the type check fails.
C4_FloatPolRejected ==
  /\ DirectDone
  /\ Len(data_points) = 2
  /\ EqualLengths(data_points)
  /\ n_pol.ty = "float"
  /\ raised = "AssertionError"

\* C5: each gradient-descent-backed kind injects the derivative of its own
\* loss: OLS_SGD the MSE one, RIDGE_SGD the ridge one, LOGISTIC the logistic one.
C5_DerivativeOfOwnLoss ==
  (call = "regressor" /\ solver = "stochastic_batch_gradient_descent")
    => cost_derivative =
         (IF type = "OLS_SGD" THEN "calculate_cost_derivative_mse"
          ELSE IF type = "RIDGE_SGD" THEN "calculate_cost_derivative_ridge"
          ELSE "calculate_cost_derivative_logistic")

\* The train design matrix as get_model_matrix built it, before center ran.
TrainOriginal == get_model_matrix(train_data.inputs, n_pol, FALSE, "ValueError").value

FitIntercept == call = "regressor" /\ regressor_parameters.fit_intercept

\* The prediction of test row r computed from that row alone, given the
\* mean and the range of the train design matrix.
SingleRowPrediction(r, mean, range) ==
  LET obs == [j \in 1..Len(test_data.inputs) |->
                Arr(test_data.inputs[j].dtype, <<test_data.inputs[j].v[r]>>)]
      row == get_model_matrix(obs, n_pol, FALSE, "ValueError").value.rows[1]
      centered == [c \in 1..Len(row) |-> RDiv(RSub(row[c], mean[c]), range[c])]
  IN RAdd(Dot(centered, beta, Len(beta)), NpMean(train_data.targets))

\* C6: with fit_intercept the test design matrix is centred with the mean
\* and range of the train design matrix, and the prediction of a test row is
\* a function of that row, the train set and beta alone.
C6_TestCentredWithTrainPair ==
  (FitIntercept /\ centered_test_model_matrix # NoRef)
    => LET mean == ColMean(TrainOriginal)
           range == ColRange(TrainOriginal)
           te == heap[test_model_matrix]
       IN /\ train_mean = mean
          /\ divisor_scaler = range
          /\ \A r \in 1..NumRows(te) : \A c \in 1..NumCols(te) :
               heap[centered_test_model_matrix].rows[r][c] =
                 RDiv(RSub(te.rows[r][c], mean[c]), range[c])
          /\ (pc = "done" /\ raised = "none") =>
               \A r \in 1..Len(test_prediction) :
                 test_prediction[r] = SingleRowPrediction(r, mean, range)

\* C6 witness: a returned prediction for a test set of two or more rows whose
\* own mean differs from the train mean.
C6_ShiftedTestSetPredicted ==
  /\ FitIntercept
  /\ pc = "done"
  /\ raised = "none"
  /\ Len(test_prediction) >= 2
  /\ ColMean(heap[test_model_matrix]) # train_mean
  /\ \A r \in 1..Len(test_prediction) : IsFinite(test_prediction[r])

\* get_beta has been called: the train design matrix is built and, with
\* fit_intercept, centred.
ReachedGetBeta ==
  /\ train_model_matrix # NoRef
  /\ regressor_parameters.fit_intercept => centered_train_model_matrix # NoRef

\* C7: for a kind tag that is none of the six, under either fit_intercept,
\* regressor never yields a train or a test prediction nor a beta of another
\* kind; it ends with an error, and once get_beta is called that error is the
\* not-implemented error.
C7_UnknownKindNotImplemented ==
  (call = "regressor" /\ type \notin RegressorType)
    => /\ train_prediction = NoVector
       /\ test_prediction = NoVector
       /\ beta = NoVector
       /\ solver = "none"
       /\ pc \notin {"predict_train", "test_matrix", "predict_test"}
       /\ pc = "done" => raised # "none"
       /\ (pc = "done" /\ ReachedGetBeta) => raised = "NotImplementedError"

\* C7 witness: an unknown kind, fit_intercept on, ended in get_beta.
C7_UnknownKindRaised ==
  /\ call = "regressor"
  /\ type \notin RegressorType
  /\ regressor_parameters.fit_intercept
  /\ pc = "done"
  /\ ReachedGetBeta
  /\ raised = "NotImplementedError"

PredictionsOf(ref, intercept) ==
  [r \in 1..NumRows(heap[ref]) |-> RAdd(Dot(heap[ref].rows[r], beta, Len(beta)), intercept)]

\* C8: with fit_intercept both design matrices lack the ones column and both
\* predictions are X @ beta + mean(train targets); without it both matrices
\* start with the ones column and both predictions are X @ beta; one beta
\* serves both predictions.
C8_InterceptHandledOneOfTwoWays ==
  (call = "regressor" /\ pc = "done" /\ raised = "none")
    => LET terms == Len(IndexCombinations(Len(train_data.inputs), n_pol.val))
           tr == heap[train_model_matrix]
           te == heap[test_model_matrix]
       IN IF regressor_parameters.fit_intercept
          THEN /\ NumCols(tr) = terms
               /\ te = get_model_matrix(test_data.inputs, n_pol, FALSE, "ValueError").value
               /\ train_prediction =
                    PredictionsOf(centered_train_model_matrix, NpMean(train_data.targets))
               /\ test_prediction =
                    PredictionsOf(centered_test_model_matrix, NpMean(train_data.targets))
          ELSE /\ NumCols(tr) = terms + 1
               /\ NumCols(te) = terms + 1
               /\ \A r \in 1..NumRows(tr) : tr.rows[r][1] = Rat(1)
               /\ \A r \in 1..NumRows(te) : te.rows[r][1] = Rat(1)
               /\ train_prediction = PredictionsOf(train_model_matrix, Rat(0))
               /\ test_prediction = PredictionsOf(test_model_matrix, Rat(0))

\* C8 witness: a returned pair of predictions with fit_intercept on; the
\* mean of the train targets is not zero.
C8_FittedInterceptReturned ==
  /\ FitIntercept
  /\ pc = "done"
  /\ raised = "none"
  /\ NpMean(train_data.targets) # Rat(0)
  /\ Len(train_prediction) >= 2
  /\ \A r \in 1..Len(train_prediction) : IsFinite(train_prediction[r])

NoConstantColumn(m) == \A c \in 1..NumCols(m) : ColRange(m)[c] # Rat(0)

\* C9: for a matrix with no constant column, scaled * range + mean of what
\* center returned is the matrix as it was before the call.
C9_RoundTrip ==
  (FitIntercept /\ centered_train_model_matrix # NoRef)
    => LET original == TrainOriginal
       IN NoConstantColumn(original) =>
            \A r \in 1..NumRows(original) : \A c \in 1..NumCols(original) :
              RAdd(RMul(heap[centered_train_model_matrix].rows[r][c], divisor_scaler[c]),
                   train_mean[c])
                = original.rows[r][c]

\* Row r of the original matrix, centred with its mean and range and stored
\* with the matrix's dtype.
CentredRows(original, mean, range, r) ==
  {[c \in 1..NumCols(original) |->
      AssignCast(original.dtype, RDiv(RSub(original.rows[r][c], mean[c]), range[c]), g)] :
     g \in CastOfNonFinite}

\* C10: center overwrites its argument row by row; the mean and the range
\* are those of the original matrix, every row already overwritten was
\* transformed with them, every other row is untouched, and the matrix
\* returned is the argument itself.
C10_InPlaceWithOriginalMeanAndRange ==
  (FitIntercept /\ (pc = "center_loop" \/ centered_train_model_matrix # NoRef))
    => LET original == TrainOriginal
           mean == ColMean(original)
           range == ColRange(original)
       IN /\ matrix = train_model_matrix
          /\ m_mean = mean
          /\ divisor = range
          /\ \A r \in 1..NumRows(original) :
               IF r <= i THEN heap[matrix].rows[r] \in CentredRows(original, mean, range, r)
               ELSE heap[matrix].rows[r] = original.rows[r]
          /\ centered_train_model_matrix # NoRef =>
               /\ centered_train_model_matrix = train_model_matrix
               /\ train_mean = mean
               /\ divisor_scaler = range
               /\ i = NumRows(original)

\* C10 witness: inside the loop, the first row overwritten and a later row
\* still to come.
C10_PartlyOverwritten ==
  /\ FitIntercept
  /\ pc = "center_loop"
  /\ i >= 1
  /\ i < NumRows(heap[matrix])
  /\ heap[matrix].rows[1] # TrainOriginal.rows[1]

====
